---- MODULE Spec2Model ----
(***************************************************************************)
(* prompt-poet: the template registry (template_registry.py).              *)
(*                                                                         *)
(* The registry is a singleton holding an LRUCache (cachetools) from      *)
(* loader id to compiled template, a dict of registered loaders, and one   *)
(* daemon thread (_load_internal) that re-loads every registered loader    *)
(* each interval.  Caller threads run get_template.  The code takes no     *)
(* lock, so the threads interleave between the statements of               *)
(* get_template/_load_internal and between the steps of the LRUCache       *)
(* operations they call (LRUCache is plain Python: __setitem__ is the      *)
(* eviction loop, the store into the data dict, then the recency update;   *)
(* __getitem__ is the read of the data dict, then the recency update).     *)
(***************************************************************************)
EXTENDS Naturals, Sequences, FiniteSets

\* ------------------------------------------------------------------ bounds

\* Loads that may complete successfully in one behaviour of Spec (two caller
\* threads, two identities) and of SpecLRU (one caller thread, three
\* identities, capacity 2).
MaxLoads == 2
MaxLoadsLRU == 4
\* cache_max_size is a constructor argument; Spec draws it from 1..MaxCap.
MaxCap == 2

VARIABLES
    data,       \* LRUCache: the key -> value dict (Cache.__data)
    order,      \* LRUCache: the recency order, least recently used first
    maxsize,    \* LRUCache: maxsize (cache_max_size)
    loaders,    \* _template_loader_cache: its keys in insertion order
    source,     \* the remote/local source: current version of each identity
    nloaded,    \* how many load() calls have returned a template so far
    limit,      \* how many load() calls may return a template in this behaviour
    rd,         \* per caller thread: position in get_template and locals
    bg,         \* the background thread: position in _load_internal and locals
    racc,       \* history: the identities in the order the caller threads last
                \* accessed them through the cache (least recent first)
    lc,         \* the singleton's life cycle: __new__/__init__, shutdown and
                \* the refresher threads they start and stop
    gcs,        \* the object-storage loaders: the bucket, the generation
                \* ledger file and each loader's own state
    tp          \* the outcome of the last Template(...) construction

vars == <<data, order, maxsize, loaders, source, nloaded, limit, rd, bg, racc,
          lc, gcs, tp>>

\* ------------------------------------------------------------ plain values

\* A compiled template: which identity it was loaded for, the source version
\* it was compiled from, and which load() call made it (every load() builds a
\* new jinja2 Template object; the calls are numbered as they return).
Tmpl(k, v, n) == [id |-> k, ver |-> v, n |-> n]
NoTmpl == [id |-> "none", ver |-> 0, n |-> 0]

\* What the last call of a caller thread left it with: nothing yet, a
\* template, or an exception; uc tells whether the call was a cached lookup.
NoRet == [kind |-> "none", val |-> NoTmpl, err |-> "", uc |-> FALSE]

\* A caller thread outside get_template.  In a call: key is loader.id(), uc is
\* use_cache, miss tells that line 80 did not find the key, val is the value
\* the thread holds (from load(), then from the read of line 83), nl counts
\* the load() calls of this call, prev is the template the caller still holds
\* from its previous call when that was a cached lookup of the same identity.
IdleReader == [pc |-> "idle", key |-> "none", uc |-> FALSE, val |-> NoTmpl,
               miss |-> FALSE, nl |-> 0, prev |-> NoTmpl, ret |-> NoRet]

\* The background thread between two cycles.  In a cycle: idx is the place
\* of the dict iterator, len0 the size of the dict when the iteration began,
\* key and val the loader at hand and what its load() returned.  failed is
\* history: the identity whose load this thread last saw raise in the current
\* cycle, until the thread stores a template for it again.
IdleBg == [pc |-> "sleep", idx |-> 0, len0 |-> 0, key |-> "none", val |-> NoTmpl,
           failed |-> "none"]

Remove(seq, k) == SelectSeq(seq, LAMBDA x : x # k)
InSeq(seq, k) == \E i \in 1..Len(seq) : seq[i] = k

\* ------------------------------------------------------- loader.load()

\* What a load() of identity k that succeeds now returns: a new template
\* compiled from the current source.
Load(k) == Tmpl(k, source[k], nloaded + 1)

CanLoad == nloaded < limit

\* ------------------------------------------------------------- LRUCache

\* Cache.__contains__
Contains(d, k) == k \in DOMAIN d

\* LRUCache.__update: move_to_end(key), or append when the key is not there.
LRUUpdate(o, k) == Append(Remove(o, k), k)

\* dict store / delete on Cache.__data (Cache.__currsize follows the dict,
\* every value having size 1).
Store(d, k, v) == [x \in DOMAIN d \cup {k} |-> IF x = k THEN v ELSE d[x]]
Delete(d, k) == [x \in DOMAIN d \ {k} |-> d[x]]

\* The eviction loop of Cache.__setitem__ for a key that is not in the dict:
\*   while self.__currsize + size > maxsize: self.popitem()
\* LRUCache.popitem takes the first key of the order and pops it; it raises
\* KeyError when the order is empty or when that key is not in the dict.
RECURSIVE EvictLoop(_, _, _)
EvictLoop(d, o, m) ==
    IF Cardinality(DOMAIN d) + 1 <= m THEN [data |-> d, order |-> o, err |-> ""]
    ELSE IF o = <<>> THEN [data |-> d, order |-> o, err |-> "KeyError"]
    ELSE IF ~Contains(d, Head(o)) THEN [data |-> d, order |-> o, err |-> "KeyError"]
    ELSE EvictLoop(Delete(d, Head(o)), Tail(o), m)

\* Cache.__setitem__, first part: the loop runs only for a new key.
Evict(d, o, m, k) ==
    IF Contains(d, k) THEN [data |-> d, order |-> o, err |-> ""]
    ELSE EvictLoop(d, o, m)

\* ------------------------------------------------------------------- Init

\* The value of a part of the state that a specification leaves out.
Off == "off"

\* The registry as __init__ leaves it (lines 43-49): an empty cache, no
\* loader registered, the background thread started.
Constructed(readers, ids, caps, lim) ==
    /\ data = << >>
    /\ order = << >>
    /\ maxsize \in caps
    /\ loaders = << >>
    /\ source = [k \in ids |-> 0]
    /\ nloaded = 0
    /\ limit = lim
    /\ rd = [r \in readers |-> IdleReader]
    /\ bg = IdleBg
    /\ racc = << >>
    /\ lc = Off
    /\ gcs = Off
    /\ tp = Off

Init == Constructed({"r1", "r2"}, {"X", "Y"}, 1..MaxCap, MaxLoads)

InitLRU == Constructed({"r1"}, {"X", "Y", "Z"}, {2}, MaxLoadsLRU)

\* The caller threads and the loader identities (loader.id() values).
Readers == DOMAIN rd
Ids == DOMAIN source

\* ------------------------------------------------------------ get_template

\* What a finished call leaves with its caller.
Returned(s, v) == [kind |-> "ok", val |-> v, err |-> "", uc |-> s.uc]
\* Mutant: the error is swallowed and the call returns nothing.
RaisedSwallowed(s, e) == [kind |-> "ok", val |-> NoTmpl, err |-> "", uc |-> s.uc]

Raised(s, e) == [kind |-> "err", val |-> NoTmpl, err |-> e, uc |-> s.uc]
Finish(r, out) == rd' = [rd EXCEPT ![r] = [IdleReader EXCEPT !.ret = out]]

\* Mutant: the use_cache flag is ignored and every call takes the cache path.
FirstPcIgnoresFlag(uc, hit) == IF hit THEN "l83_read" ELSE "l81"

\* Where a call goes first: line 76 sends use_cache=False to the direct load
\* of line 77; with use_cache the test of line 80 sends a key found in the
\* cache to the read of line 83 and a key not found to line 81.
FirstPc(uc, hit) == IF ~uc THEN "nc_load" ELSE IF hit THEN "l83_read" ELSE "l81"

\* The template the caller still holds from its previous call, when that call
\* was a cached lookup of the same identity (Template._template).
Held(s, k, uc) ==
    IF uc /\ s.ret.kind = "ok" /\ s.ret.uc /\ s.ret.val.id = k THEN s.ret.val
    ELSE NoTmpl

\* get_template(loader, use_cache) is called and runs lines 76-80.
GetTemplate(r, k, uc) ==
    /\ rd[r].pc = "idle"
    /\ rd' = [rd EXCEPT ![r] =
                [IdleReader EXCEPT !.pc = FirstPc(uc, Contains(data, k)),
                                   !.key = k, !.uc = uc,
                                   !.miss = uc /\ ~Contains(data, k),
                                   !.prev = Held(rd[r], k, uc)]]
    /\ UNCHANGED <<data, order, maxsize, loaders, source, nloaded, limit, bg, racc, lc, gcs, tp>>

\* line 77: return template_loader.load(), the load succeeds.
NcLoadOk(r) ==
    /\ rd[r].pc = "nc_load"
    /\ CanLoad
    /\ Finish(r, Returned(rd[r], Load(rd[r].key)))
    /\ nloaded' = nloaded + 1
    /\ UNCHANGED <<data, order, maxsize, loaders, source, limit, bg, racc, lc, gcs, tp>>

\* line 77: the load raises, and the error leaves get_template.
NcLoadFail(r) ==
    /\ rd[r].pc = "nc_load"
    /\ Finish(r, Raised(rd[r], "LoadError"))
    /\ UNCHANGED <<data, order, maxsize, loaders, source, nloaded, limit, bg, racc, lc, gcs, tp>>

\* The dict store of line 81: a new key is appended, a known key keeps its place.
Register(ls, k) == IF InSeq(ls, k) THEN ls ELSE Append(ls, k)

\* Mutant: line 81 also puts a placeholder entry into the cache before the
\* load has run.
RegisterLoaderPublishes(r) ==
    /\ rd[r].pc = "l81"
    /\ loaders' = Register(loaders, rd[r].key)
    /\ data' = Store(data, rd[r].key, NoTmpl)
    /\ rd' = [rd EXCEPT ![r].pc = "l82_load"]
    /\ UNCHANGED <<order, maxsize, source, nloaded, limit, bg, racc, lc, gcs, tp>>

\* line 81: self._template_loader_cache[cache_key] = template_loader
RegisterLoader(r) ==
    /\ rd[r].pc = "l81"
    /\ loaders' = Register(loaders, rd[r].key)
    /\ rd' = [rd EXCEPT ![r].pc = "l82_load"]
    /\ UNCHANGED <<data, order, maxsize, source, nloaded, limit, bg, racc, lc, gcs, tp>>

\* line 82, right-hand side: template_loader.load() returns.
MissLoadOk(r) ==
    /\ rd[r].pc = "l82_load"
    /\ CanLoad
    /\ rd' = [rd EXCEPT ![r] = [@ EXCEPT !.pc = "l82_evict", !.nl = @ + 1,
                                         !.val = Load(rd[r].key)]]
    /\ nloaded' = nloaded + 1
    /\ UNCHANGED <<data, order, maxsize, loaders, source, limit, bg, racc, lc, gcs, tp>>

\* line 82, right-hand side: template_loader.load() raises, and the error
\* leaves get_template.
MissLoadFail(r) ==
    /\ rd[r].pc = "l82_load"
    /\ Finish(r, Raised(rd[r], "LoadError"))
    /\ UNCHANGED <<data, order, maxsize, loaders, source, nloaded, limit, bg, racc, lc, gcs, tp>>

\* line 82, the store: LRUCache.__setitem__, the eviction loop.
MissEvict(r) ==
    /\ rd[r].pc = "l82_evict"
    /\ LET e == Evict(data, order, maxsize, rd[r].key)
       IN /\ data' = e.data
          /\ order' = e.order
          /\ IF e.err = "" THEN rd' = [rd EXCEPT ![r].pc = "l82_store"]
             ELSE Finish(r, Raised(rd[r], e.err))
    /\ UNCHANGED <<maxsize, loaders, source, nloaded, limit, bg, racc, lc, gcs, tp>>

\* Mutant: the call forgets to store what it loaded.
MissStoreForgets(r) ==
    /\ rd[r].pc = "l82_store"
    /\ rd' = [rd EXCEPT ![r].pc = "l82_update"]
    /\ UNCHANGED <<data, order, maxsize, loaders, source, nloaded, limit, bg, racc, lc, gcs, tp>>

\* line 82, the store: self.__data[key] = value.
MissStore(r) ==
    /\ rd[r].pc = "l82_store"
    /\ data' = Store(data, rd[r].key, rd[r].val)
    /\ rd' = [rd EXCEPT ![r].pc = "l82_update"]
    /\ UNCHANGED <<order, maxsize, loaders, source, nloaded, limit, bg, racc, lc, gcs, tp>>

\* line 82, the store: self.__update(key).
MissUpdate(r) ==
    /\ rd[r].pc = "l82_update"
    /\ order' = LRUUpdate(order, rd[r].key)
    /\ racc' = LRUUpdate(racc, rd[r].key)
    /\ rd' = [rd EXCEPT ![r].pc = "l83_read"]
    /\ UNCHANGED <<data, maxsize, loaders, source, nloaded, limit, bg, lc, gcs, tp>>

\* Mutant: the read waits until no background load() of the identity runs.
ReadItemWaits(r) ==
    /\ rd[r].pc = "l83_read"
    /\ ~(bg.pc = "load" /\ bg.key = rd[r].key)
    /\ IF Contains(data, rd[r].key)
       THEN rd' = [rd EXCEPT ![r] = [@ EXCEPT !.pc = "l83_update",
                                              !.val = data[rd[r].key]]]
       ELSE Finish(r, Raised(rd[r], "KeyError"))
    /\ UNCHANGED <<data, order, maxsize, loaders, source, nloaded, limit, bg, racc, lc, gcs, tp>>

\* line 83: LRUCache.__getitem__ reads the dict; a missing key is a KeyError,
\* which leaves get_template.
ReadItem(r) ==
    /\ rd[r].pc = "l83_read"
    /\ IF Contains(data, rd[r].key)
       THEN rd' = [rd EXCEPT ![r] = [@ EXCEPT !.pc = "l83_update",
                                              !.val = data[rd[r].key]]]
       ELSE Finish(r, Raised(rd[r], "KeyError"))
    /\ UNCHANGED <<data, order, maxsize, loaders, source, nloaded, limit, bg, racc, lc, gcs, tp>>

\* line 83: LRUCache.__getitem__ updates the recency of a key still in the
\* dict, and get_template returns the value read.
TouchAndReturn(r) ==
    /\ rd[r].pc = "l83_update"
    /\ order' = IF Contains(data, rd[r].key) THEN LRUUpdate(order, rd[r].key)
                ELSE order
    /\ racc' = IF Contains(data, rd[r].key) THEN LRUUpdate(racc, rd[r].key)
               ELSE racc
    /\ Finish(r, Returned(rd[r], rd[r].val))
    /\ UNCHANGED <<data, maxsize, loaders, source, nloaded, limit, bg, lc, gcs, tp>>

\* ---------------------------------------------------------- _load_internal

\* lines 55-56: a refresh cycle starts iterating the loader dict.
BgCycleStart ==
    /\ bg.pc = "sleep"
    /\ bg' = [IdleBg EXCEPT !.pc = "iter", !.len0 = Len(loaders)]
    /\ UNCHANGED <<data, order, maxsize, loaders, source, nloaded, limit, rd, racc, lc, gcs, tp>>

\* line 56: the next item of the dict iterator.  A dict that changed size
\* since the iteration began makes it raise RuntimeError, outside the try of
\* lines 57-60: the thread ends.  After the last item the thread sleeps
\* (line 61).
BgNext ==
    /\ bg.pc = "iter"
    /\ bg' = IF Len(loaders) # bg.len0 THEN [IdleBg EXCEPT !.pc = "dead"]
             ELSE IF bg.idx = bg.len0 THEN IdleBg
             ELSE [bg EXCEPT !.pc = "load", !.idx = @ + 1,
                             !.key = loaders[bg.idx + 1]]
    /\ UNCHANGED <<data, order, maxsize, loaders, source, nloaded, limit, rd, racc, lc, gcs, tp>>

\* line 58, right-hand side: template_loader.load() returns.
BgLoadOk ==
    /\ bg.pc = "load"
    /\ CanLoad
    /\ bg' = [bg EXCEPT !.pc = "evict", !.val = Load(bg.key)]
    /\ nloaded' = nloaded + 1
    /\ UNCHANGED <<data, order, maxsize, loaders, source, limit, rd, racc, lc, gcs, tp>>

\* Mutant: a failed background load() drops the entry of the identity.
BgLoadFailDrops ==
    /\ bg.pc = "load"
    /\ bg' = [bg EXCEPT !.pc = "iter", !.key = "none", !.failed = bg.key]
    /\ data' = Delete(data, bg.key)
    /\ order' = Remove(order, bg.key)
    /\ UNCHANGED <<maxsize, loaders, source, nloaded, limit, rd, racc, lc, gcs, tp>>

\* lines 58-60: load() raises, the error is logged, the loop goes on.
BgLoadFail ==
    /\ bg.pc = "load"
    /\ bg' = [bg EXCEPT !.pc = "iter", !.key = "none", !.failed = bg.key]
    /\ UNCHANGED <<data, order, maxsize, loaders, source, nloaded, limit, rd, racc, lc, gcs, tp>>

\* line 58, the store: the eviction loop; its KeyError is caught by line 59.
BgEvict ==
    /\ bg.pc = "evict"
    /\ LET e == Evict(data, order, maxsize, bg.key)
       IN /\ data' = e.data
          /\ order' = e.order
          /\ bg' = IF e.err = "" THEN [bg EXCEPT !.pc = "store"]
                   ELSE [bg EXCEPT !.pc = "iter", !.key = "none", !.val = NoTmpl]
    /\ UNCHANGED <<maxsize, loaders, source, nloaded, limit, rd, racc, lc, gcs, tp>>

\* line 58, the store: self.__data[key] = value.
BgStore ==
    /\ bg.pc = "store"
    /\ data' = Store(data, bg.key, bg.val)
    /\ bg' = [bg EXCEPT !.pc = "update",
                        !.failed = IF @ = bg.key THEN "none" ELSE @]
    /\ UNCHANGED <<order, maxsize, loaders, source, nloaded, limit, rd, racc, lc, gcs, tp>>

\* line 58, the store: self.__update(key).
BgUpdate ==
    /\ bg.pc = "update"
    /\ order' = LRUUpdate(order, bg.key)
    /\ bg' = [bg EXCEPT !.pc = "iter", !.key = "none", !.val = NoTmpl]
    /\ UNCHANGED <<data, maxsize, loaders, source, nloaded, limit, rd, racc, lc, gcs, tp>>

\* ------------------------------------------------------------------- Next

ReaderStep(r) ==
    \/ \E k \in Ids, uc \in BOOLEAN : GetTemplate(r, k, uc)
    \/ NcLoadOk(r)
    \/ NcLoadFail(r)
    \/ RegisterLoader(r)
    \/ MissLoadOk(r)
    \/ MissLoadFail(r)
    \/ MissEvict(r)
    \/ MissStore(r)
    \/ MissUpdate(r)
    \/ ReadItem(r)
    \/ TouchAndReturn(r)

BgStep ==
    \/ BgCycleStart
    \/ BgNext
    \/ BgLoadOk
    \/ BgLoadFail
    \/ BgEvict
    \/ BgStore
    \/ BgUpdate

Next ==
    \/ \E r \in Readers : ReaderStep(r)
    \/ BgStep

Spec == Init /\ [][Next]_vars

\* The eviction scenario: one caller thread making cached lookups only.
CachedStep(r) ==
    \/ \E k \in Ids : GetTemplate(r, k, TRUE)
    \/ RegisterLoader(r)
    \/ MissLoadOk(r)
    \/ MissLoadFail(r)
    \/ MissEvict(r)
    \/ MissStore(r)
    \/ MissUpdate(r)
    \/ ReadItem(r)
    \/ TouchAndReturn(r)

NextLRU ==
    \/ \E r \in Readers : CachedStep(r)
    \/ BgStep

SpecLRU == InitLRU /\ [][NextLRU]_vars

\* --------------------------------------------- life cycle of the singleton

\* Constructions that build a registry (cache, loader dict, stop event and
\* thread of one generation) in one behaviour of SpecLife.
MaxGen == 2

Gens == 1..MaxGen

\* A refresher thread object: not created, created (line 48), at the test of
\* line 55, in load() or at the store of line 58, in the sleep of line 61,
\* or exited; by: which operation had set the stop event it exited on.
NoThread == [pc |-> "none", by |-> "no"]

\* A thread that calls TemplateRegistry(...) and shutdown(): its position,
\* the call it is in and that call's locals (g: the generation this
\* construction builds, t: the thread it joins), and history: t0 the thread
\* handle when a shutdown() began, stale whether a construction began with
\* the handle on a thread that shutdown() had stopped, ev the stop event a
\* finished shutdown() found or left set, out the outcome of the last call,
\* has whether the caller holds the instance.
IdleProc ==
    [pc |-> "idle", op |-> "none", reset |-> FALSE, g |-> 0, t |-> 0,
     t0 |-> 0, stale |-> FALSE, ev |-> 0, out |-> "none", has |-> FALSE]

\* The class before any TemplateRegistry(...) call: _instance = None
\* (line 19).  cache, dict, event and thread are the generations of
\* _template_cache, _template_loader_cache, _stop_event and _thread (0: the
\* attribute does not exist); set: which operation set each stop event;
\* reg: whether a loader is registered in each loader dict; olds: the
\* threads that had been started when each cache map was installed; lw: the
\* last store a refresher thread made, as (map, thread).
NoInstance(procs) ==
    [inst |-> FALSE, init |-> FALSE, cache |-> 0, dict |-> 0, event |-> 0,
     thread |-> 0, ngen |-> 0,
     set |-> [g \in Gens |-> "no"],
     reg |-> [g \in Gens |-> FALSE],
     thr |-> [g \in Gens |-> NoThread],
     olds |-> [g \in Gens |-> {}],
     lw |-> [map |-> 0, by |-> 0],
     p |-> [q \in procs |-> IdleProc]]

Procs == DOMAIN lc.p

\* The end of a call with outcome o.
Return(s, o) ==
    [IdleProc EXCEPT !.out = o, !.ev = s.ev,
                     !.has = s.has \/ o \in {"built", "kept"}]

\* The _thread handle refers to a thread that shutdown() has stopped.
StaleHandle ==
    /\ lc.thread # 0
    /\ lc.thr[lc.thread].pc = "exited"
    /\ lc.thr[lc.thread].by = "shutdown"

\* lines 21-40: __new__ creates the instance, with _initialized = False, if
\* there is none; __init__ is done unless not self._initialized or reset.
NewRegistry(q, reset) ==
    /\ lc.p[q].pc = "idle"
    /\ (reset \/ ~lc.init) => lc.ngen < MaxGen
    /\ lc' = [lc EXCEPT
                !.inst = TRUE,
                !.ngen = IF reset \/ ~lc.init THEN @ + 1 ELSE @,
                !.p[q] = IF reset \/ ~lc.init
                         THEN [@ EXCEPT !.pc = "l100", !.op = "init",
                                        !.reset = reset,
                                        !.g = lc.ngen + 1,
                                        !.stale = StaleHandle]
                         ELSE Return(@, "kept")]
    /\ UNCHANGED <<data, order, maxsize, loaders, source, nloaded, limit, rd,
                   bg, racc, gcs, tp>>

\* lines 93-95: shutdown(), called on the instance the caller holds.
Shutdown(q) ==
    /\ lc.p[q].pc = "idle"
    /\ lc.p[q].has
    /\ lc' = [lc EXCEPT
                !.p[q] = [@ EXCEPT !.pc = "l100", !.op = "shutdown",
                                   !.t0 = lc.thread]]
    /\ UNCHANGED <<data, order, maxsize, loaders, source, nloaded, limit, rd,
                   bg, racc, gcs, tp>>

\* The stop routine is done: shutdown() returns, __init__ goes on to line 43.
Stopped(s, o) ==
    IF s.op = "shutdown" THEN Return(s, o) ELSE [s EXCEPT !.pc = "l43"]

\* Mutant: the routine goes on although the event is set.
SkipsStopNever(e) == e = 0

\* line 100: nothing to do if there is no _stop_event or it is set.
SkipsStop(e) == e = 0 \/ lc.set[e] # "no"

Line100(q) ==
    /\ lc.p[q].pc = "l100"
    /\ lc' = [lc EXCEPT
                !.p[q] = IF SkipsStop(lc.event)
                         THEN Stopped([@ EXCEPT !.ev = lc.event], "skipped")
                         ELSE [@ EXCEPT !.pc = "l101"]]
    /\ UNCHANGED <<data, order, maxsize, loaders, source, nloaded, limit, rd,
                   bg, racc, gcs, tp>>

\* line 101: self._stop_event.set(), on the event the attribute holds now.
Line101(q) ==
    /\ lc.p[q].pc = "l101"
    /\ lc' = [lc EXCEPT
                !.set[lc.event] = IF @ = "no" THEN lc.p[q].op ELSE @,
                !.p[q] = [@ EXCEPT !.pc = "l102", !.ev = lc.event]]
    /\ UNCHANGED <<data, order, maxsize, loaders, source, nloaded, limit, rd,
                   bg, racc, gcs, tp>>

\* lines 102-103: if there is a _thread, join() is called on it; join() on a
\* thread that was not started raises RuntimeError, which leaves the call.
Line102(q) ==
    /\ lc.p[q].pc = "l102"
    /\ lc' = [lc EXCEPT
                !.p[q] = IF lc.thread = 0 THEN Stopped(@, "stopped")
                         ELSE IF lc.thr[lc.thread].pc = "new"
                              THEN Return(@, "RuntimeError")
                         ELSE [@ EXCEPT !.pc = "l103", !.t = lc.thread]]
    /\ UNCHANGED <<data, order, maxsize, loaders, source, nloaded, limit, rd,
                   bg, racc, gcs, tp>>

\* line 103: join() returns once the thread has exited.
Join(q) ==
    /\ lc.p[q].pc = "l103"
    /\ lc.thr[lc.p[q].t].pc = "exited"
    /\ lc' = [lc EXCEPT !.p[q] = Stopped(@, "stopped")]
    /\ UNCHANGED <<data, order, maxsize, loaders, source, nloaded, limit, rd,
                   bg, racc, gcs, tp>>

\* The threads that have been started.
Started == {t \in Gens : lc.thr[t].pc \notin {"none", "new"}}

\* lines 43-46: self._template_cache = LRUCache(...), a new map, and
\* self._template_loader_cache = {}.
Line43(q) ==
    /\ lc.p[q].pc = "l43"
    /\ lc' = [lc EXCEPT !.cache = lc.p[q].g,
                        !.dict = lc.p[q].g,
                        !.olds[lc.p[q].g] = Started,
                        !.p[q] = [@ EXCEPT !.pc = "l47"]]
    /\ UNCHANGED <<data, order, maxsize, loaders, source, nloaded, limit, rd,
                   bg, racc, gcs, tp>>

\* line 47: self._stop_event = threading.Event().
Line47(q) ==
    /\ lc.p[q].pc = "l47"
    /\ lc' = [lc EXCEPT !.event = lc.p[q].g,
                        !.p[q] = [@ EXCEPT !.pc = "l48"]]
    /\ UNCHANGED <<data, order, maxsize, loaders, source, nloaded, limit, rd,
                   bg, racc, gcs, tp>>

\* line 48: self._thread = threading.Thread(...).
Line48(q) ==
    /\ lc.p[q].pc = "l48"
    /\ lc' = [lc EXCEPT !.thread = lc.p[q].g,
                        !.thr[lc.p[q].g] = [NoThread EXCEPT !.pc = "new"],
                        !.p[q] = [@ EXCEPT !.pc = "l49"]]
    /\ UNCHANGED <<data, order, maxsize, loaders, source, nloaded, limit, rd,
                   bg, racc, gcs, tp>>

\* line 49: self._thread.start(), on the thread the attribute holds now;
\* start() on a thread that was started raises RuntimeError.
Line49(q) ==
    /\ lc.p[q].pc = "l49"
    /\ lc' = IF lc.thr[lc.thread].pc = "new"
             THEN [lc EXCEPT !.thr[lc.thread].pc = "l55",
                             !.p[q] = [@ EXCEPT !.pc = "l51"]]
             ELSE [lc EXCEPT !.p[q] = Return(@, "RuntimeError")]
    /\ UNCHANGED <<data, order, maxsize, loaders, source, nloaded, limit, rd,
                   bg, racc, gcs, tp>>

\* line 51: self._initialized = True, and __init__ returns.
Line51(q) ==
    /\ lc.p[q].pc = "l51"
    /\ lc' = [lc EXCEPT !.init = TRUE, !.p[q] = Return(@, "built")]
    /\ UNCHANGED <<data, order, maxsize, loaders, source, nloaded, limit, rd,
                   bg, racc, gcs, tp>>

\* get_template line 81, by a caller holding the instance: a loader is
\* registered in the loader dict the attribute holds now.
RegisterInDict(q) ==
    /\ lc.p[q].pc = "idle"
    /\ lc.p[q].has
    /\ lc.dict # 0
    /\ ~lc.reg[lc.dict]
    /\ lc' = [lc EXCEPT !.reg[lc.dict] = TRUE]
    /\ UNCHANGED <<data, order, maxsize, loaders, source, nloaded, limit, rd,
                   bg, racc, gcs, tp>>

\* lines 55-56 in thread t: the loop ends if the stop event the attribute
\* holds now is set; otherwise it iterates the loader dict the attribute
\* holds now.
ThreadLine55(t) ==
    /\ lc.thr[t].pc = "l55"
    /\ lc' = [lc EXCEPT
                !.thr[t] = IF lc.set[lc.event] # "no"
                           THEN [pc |-> "exited", by |-> lc.set[lc.event]]
                           ELSE IF lc.reg[lc.dict] THEN [@ EXCEPT !.pc = "load"]
                           ELSE [@ EXCEPT !.pc = "sleep"]]
    /\ UNCHANGED <<data, order, maxsize, loaders, source, nloaded, limit, rd,
                   bg, racc, gcs, tp>>

\* line 58, right-hand side, in thread t: load() returns or raises
\* (lines 59-60 log the error).
ThreadLoad(t) ==
    /\ lc.thr[t].pc = "load"
    /\ \E ok \in BOOLEAN :
          lc' = [lc EXCEPT !.thr[t].pc = IF ok THEN "store" ELSE "sleep"]
    /\ UNCHANGED <<data, order, maxsize, loaders, source, nloaded, limit, rd,
                   bg, racc, gcs, tp>>

\* line 58, the store, in thread t: into the map the attribute holds now.
ThreadStore(t) ==
    /\ lc.thr[t].pc = "store"
    /\ lc' = [lc EXCEPT !.thr[t].pc = "sleep",
                        !.lw = [map |-> lc.cache, by |-> t]]
    /\ UNCHANGED <<data, order, maxsize, loaders, source, nloaded, limit, rd,
                   bg, racc, gcs, tp>>

\* line 61 in thread t: time.sleep returns.
ThreadSleep(t) ==
    /\ lc.thr[t].pc = "sleep"
    /\ lc' = [lc EXCEPT !.thr[t].pc = "l55"]
    /\ UNCHANGED <<data, order, maxsize, loaders, source, nloaded, limit, rd,
                   bg, racc, gcs, tp>>

\* The parts of the state SpecLife leaves out.
RegistryOff ==
    /\ data = << >> /\ order = << >> /\ maxsize = 0 /\ loaders = << >>
    /\ source = << >> /\ nloaded = 0 /\ limit = 0 /\ rd = << >>
    /\ bg = IdleBg /\ racc = << >>

InitLife ==
    /\ RegistryOff
    /\ lc = NoInstance({"p1", "p2"})
    /\ gcs = Off
    /\ tp = Off

NextLife ==
    \/ \E q \in Procs, reset \in BOOLEAN : NewRegistry(q, reset)
    \/ \E q \in Procs : Shutdown(q)
    \/ \E q \in Procs : Line100(q)
    \/ \E q \in Procs : Line101(q)
    \/ \E q \in Procs : Line102(q)
    \/ \E q \in Procs : Join(q)
    \/ \E q \in Procs : Line43(q)
    \/ \E q \in Procs : Line47(q)
    \/ \E q \in Procs : Line48(q)
    \/ \E q \in Procs : Line49(q)
    \/ \E q \in Procs : Line51(q)
    \/ \E q \in Procs : RegisterInDict(q)
    \/ \E t \in Gens : ThreadLine55(t)
    \/ \E t \in Gens : ThreadLoad(t)
    \/ \E t \in Gens : ThreadStore(t)
    \/ \E t \in Gens : ThreadSleep(t)

SpecLife == InitLife /\ [][NextLife]_vars

\* ---------------------------------------------------------------- freshness

\* Versions the source of an identity goes through in SpecLive: 0..MaxVer.
MaxVer == 1

\* The source of identity k changes to a new version.
SourceChange(k) ==
    /\ source[k] < MaxVer
    /\ source' = [source EXCEPT ![k] = @ + 1]
    /\ UNCHANGED <<data, order, maxsize, loaders, nloaded, limit, rd, bg, racc,
                   lc, gcs, tp>>

\* line 82, right-hand side, in SpecLive: load() returns the template of the
\* current version.  SpecLive lets load() return any number of times and
\* does not number the calls.
LiveMissLoad(r) ==
    /\ rd[r].pc = "l82_load"
    /\ rd' = [rd EXCEPT ![r] = [@ EXCEPT !.pc = "l82_evict", !.nl = 1,
                                         !.val = Load(rd[r].key)]]
    /\ UNCHANGED <<data, order, maxsize, loaders, source, nloaded, limit, bg,
                   racc, lc, gcs, tp>>

\* line 58, right-hand side, in SpecLive.
LiveBgLoad ==
    /\ bg.pc = "load"
    /\ bg' = [bg EXCEPT !.pc = "evict", !.val = Load(bg.key)]
    /\ UNCHANGED <<data, order, maxsize, loaders, source, nloaded, limit, rd,
                   racc, lc, gcs, tp>>

\* get_template(loader, use_cache=True) with every load() succeeding.
LiveReader(r) ==
    \/ \E k \in Ids : GetTemplate(r, k, TRUE)
    \/ RegisterLoader(r)
    \/ LiveMissLoad(r)
    \/ MissEvict(r)
    \/ MissStore(r)
    \/ MissUpdate(r)
    \/ ReadItem(r)
    \/ TouchAndReturn(r)

\* _load_internal with every load() succeeding.
LiveBg ==
    \/ BgCycleStart
    \/ BgNext
    \/ LiveBgLoad
    \/ BgEvict
    \/ BgStore
    \/ BgUpdate

InitLive == Constructed({"r1"}, {"X", "Y"}, 1..MaxCap, 0)

NextLive ==
    \/ \E r \in Readers : LiveReader(r)
    \/ LiveBg
    \/ \E k \in Ids : SourceChange(k)

\* Every thread that can take a step eventually takes one.
SpecLive ==
    /\ InitLive
    /\ [][NextLive]_vars
    /\ WF_vars(LiveBg)
    /\ \A r \in {"r1"} : WF_vars(LiveReader(r))

\* ------------------------------------------------ object-storage loaders

\* Generations an object of the bucket goes through in SpecGcs.
MaxObjGen == 2

\* Names are sequences of tokens.  The loaders are made for the template
\* path d/a.yml.j2 (_parse_template_path: directory d, name a.yml.j2); the
\* bucket can hold that object, a text file and a pseudo-directory.
TemplateDir == <<"d">>
TemplateName == <<"a", ".yml", ".j2">>
ObjA == <<"d", "/", "a", ".yml", ".j2">>
ObjB == <<"d", "/", "b", ".txt">>
ObjC == <<"d", "/", "c", "/">>
Objects == {ObjA, ObjB, ObjC}

\* list_blobs returns the names in lexicographic order.
ListOrder == <<ObjA, ObjB, ObjC>>

\* str.startswith and str.endswith.
StartsWith(s, pre) == Len(s) >= Len(pre) /\ SubSeq(s, 1, Len(pre)) = pre
EndsWith(s, suf) ==
    Len(s) >= Len(suf) /\ SubSeq(s, Len(s) - Len(suf) + 1, Len(s)) = suf

\* template_loaders.py lines 151-162.
ValidExtensions ==
    {<<".yml", ".j2">>, <<".yaml", ".j2">>, <<".yml", ".jinja2">>,
     <<".yaml", ".jinja2">>}
IsYamlJinja(filename) == \E ext \in ValidExtensions : EndsWith(filename, ext)

\* os.path.join(prefix, template) and the path of a blob relative to the
\* template directory (os.path.relpath, blob.name[len(dir) + 1:]).
JoinPath(dir, name) == dir \o <<"/">> \o name
RelPath(name, dir) == SubSeq(name, Len(dir) + 2, Len(name))
RelPaths == {RelPath(o, TemplateDir) : o \in Objects}

\* The keys of the '.generation' file: GCSToLocalFSTemplateLoader records
\* blob names, GCSLoader the template name.
LedgerKeys == Objects \cup {TemplateName}

\* An object of the bucket: the last generation it was given (0: it never
\* existed) and whether it exists now.
NoObject == [gen |-> 0, live |-> FALSE]

\* The outcome of a load(): the loader variant, the error raised ("" if
\* none), the generation of the object whose content the returned template
\* was compiled from, the blobs the call downloaded, and whether the
\* requested object was absent from the bucket during the call.
NoLoad == [variant |-> "none", err |-> "", content |-> 0, dl |-> {},
           absent |-> FALSE]

\* The bucket empty, no '.generation' file in the local directory, no local
\* file, a GCSDictTemplateLoader as __init__ leaves it (lines 108-109).
InitGcsState ==
    [bucket |-> [o \in Objects |-> NoObject],
     ledger |-> [st |-> "missing", data |-> [k \in LedgerKeys |-> 0]],
     writable |-> TRUE,
     files |-> [f \in RelPaths |-> 0],
     mapping |-> [f \in RelPaths |-> 0],
     gd |-> [o \in Objects |-> 0],
     last |-> NoLoad]

\* Only the requested template changes its content in SpecGcs.
GenBound(o) == IF o = ObjA THEN MaxObjGen ELSE 1

\* An object is uploaded: a new generation.
BucketPut(o) ==
    /\ gcs.bucket[o].gen < GenBound(o)
    /\ gcs' = [gcs EXCEPT !.bucket[o] = [gen |-> @.gen + 1, live |-> TRUE]]
    /\ UNCHANGED <<data, order, maxsize, loaders, source, nloaded, limit, rd,
                   bg, racc, lc, tp>>

\* An object is deleted.
BucketDelete(o) ==
    /\ gcs.bucket[o].live
    /\ gcs' = [gcs EXCEPT !.bucket[o].live = FALSE]
    /\ UNCHANGED <<data, order, maxsize, loaders, source, nloaded, limit, rd,
                   bg, racc, lc, tp>>

\* The '.generation' file is removed, made unreadable, overwritten with
\* text that is not JSON, or with JSON that is not an object.
LedgerDamage(st) ==
    /\ gcs.ledger.st # st
    /\ gcs' = [gcs EXCEPT !.ledger = [st |-> st,
                                      data |-> [k \in LedgerKeys |-> 0]]]
    /\ UNCHANGED <<data, order, maxsize, loaders, source, nloaded, limit, rd,
                   bg, racc, lc, tp>>

\* The local directory becomes read-only or writable again.
SetWritable(b) ==
    /\ gcs.writable # b
    /\ gcs' = [gcs EXCEPT !.writable = b]
    /\ UNCHANGED <<data, order, maxsize, loaders, source, nloaded, limit, rd,
                   bg, racc, lc, tp>>

\* bucket.list_blobs(prefix=...), as a set.
ListBlobs(prefix) ==
    {o \in Objects : gcs.bucket[o].live /\ StartsWith(o, prefix)}

\* The outcome record of a load() of variant v.
Outcome(v, err, content, dl) ==
    [variant |-> v, err |-> err, content |-> content, dl |-> dl,
     absent |-> ~gcs.bucket[JoinPath(TemplateDir, TemplateName)].live]

\* The template object the loaders are asked for, and its generation.
Requested == JoinPath(TemplateDir, TemplateName)
GenOf(o) == gcs.bucket[o].gen

\* naive_gcs_template_loader.py lines 22-53: NaiveGCSTemplateLoader.load();
\* get_source raises TemplateNotFound unless blob.exists().
NaiveLoad ==
    /\ gcs' = [gcs EXCEPT
                 !.last = IF gcs.bucket[Requested].live
                          THEN Outcome("naive", "", GenOf(Requested), {Requested})
                          ELSE Outcome("naive", "TemplateNotFound", 0, {})]
    /\ UNCHANGED <<data, order, maxsize, loaders, source, nloaded, limit, rd,
                   bg, racc, lc, tp>>

\* Mutant: every listed template counts as stale.
IsStaleAlways(gd, o) == TRUE

\* template_loaders.py lines 111-114: _is_stale.
IsStale(gd, o) == gd[o] # GenOf(o)

\* template_loaders.py lines 116-131: the blobs _download fetches.
DictDownloads(gd) ==
    {o \in ListBlobs(TemplateDir) :
        /\ ~EndsWith(o, <<"/">>)
        /\ IsYamlJinja(o)
        /\ IsStale(gd, o)}

\* template_loaders.py lines 133-145: GCSDictTemplateLoader.load();
\* CacheLoader.get_source (lines 93-100) raises TemplateNotFound for a name
\* that is not in the mapping.
DictLoad ==
    LET dl == DictDownloads(gcs.gd)
        m == [f \in RelPaths |->
                IF \E o \in dl : RelPath(o, TemplateDir) = f
                THEN GenOf(CHOOSE o \in dl : RelPath(o, TemplateDir) = f)
                ELSE gcs.mapping[f]]
    IN  /\ gcs' = [gcs EXCEPT
                     !.mapping = m,
                     !.gd = [o \in Objects |->
                                IF o \in dl THEN GenOf(o) ELSE gcs.gd[o]],
                     !.last = IF m[TemplateName] # 0
                              THEN Outcome("dict", "", m[TemplateName], dl)
                              ELSE Outcome("dict", "TemplateNotFound", 0, dl)]
        /\ UNCHANGED <<data, order, maxsize, loaders, source, nloaded, limit,
                       rd, bg, racc, lc, tp>>

\* gcs_cache_template_loader.py lines 25-37 and
\* gcs_to_localfs_template_loader.py lines 43-53: the ledger as read; a
\* missing file and a failing open or json.load give {}.
ReadLedger ==
    IF gcs.ledger.st = "ok" THEN gcs.ledger.data
    ELSE [k \in LedgerKeys |-> 0]

\* gcs_cache_template_loader.py lines 44-83: GCSCacheTemplateLoader.load()
\* builds a GCSLoader, which reads the ledger, and get_source downloads the
\* blob, records its generation and writes the ledger (lines 51-53); json
\* that is not an object does not take the item assignment of line 52, a
\* read-only directory fails the open of line 41.
CacheLoad ==
    /\ gcs' =
         IF ~gcs.bucket[Requested].live
         THEN [gcs EXCEPT !.last = Outcome("cache", "TemplateNotFound", 0, {})]
         ELSE IF gcs.ledger.st = "notdict"
         THEN [gcs EXCEPT !.last = Outcome("cache", "TypeError", 0, {Requested})]
         ELSE IF ~gcs.writable
         THEN [gcs EXCEPT !.last = Outcome("cache", "OSError", 0, {Requested})]
         ELSE [gcs EXCEPT
                 !.ledger = [st |-> "ok",
                             data |-> [ReadLedger EXCEPT
                                         ![TemplateName] = GenOf(Requested)]],
                 !.last = Outcome("cache", "", GenOf(Requested), {Requested})]
    /\ UNCHANGED <<data, order, maxsize, loaders, source, nloaded, limit, rd,
                   bg, racc, lc, tp>>

\* gcs_to_localfs_template_loader.py lines 55-64: the loop over the listed
\* blobs from position i on, with the ledger d and the local files f so far.
\* generation_data that is not a dict has no .get (line 34); a blob whose
\* name ends in "/" is downloaded to a path that is a directory.
RECURSIVE DownloadLoop(_, _, _, _)
DownloadLoop(i, d, f, dl) ==
    IF i > Len(ListOrder)
    THEN [err |-> "", data |-> d, files |-> f, dl |-> dl]
    ELSE LET o == ListOrder[i]
         IN  IF o \notin ListBlobs(TemplateDir)
             THEN DownloadLoop(i + 1, d, f, dl)
             ELSE IF gcs.ledger.st = "notdict"
             THEN [err |-> "AttributeError", data |-> d, files |-> f, dl |-> dl]
             ELSE IF d[o] = GenOf(o)
             THEN DownloadLoop(i + 1, d, f, dl)
             ELSE IF EndsWith(o, <<"/">>)
             THEN [err |-> "IsADirectoryError", data |-> d, files |-> f,
                   dl |-> dl]
             ELSE DownloadLoop(i + 1,
                               [d EXCEPT ![o] = GenOf(o)],
                               [f EXCEPT ![RelPath(o, TemplateDir)] = GenOf(o)],
                               dl \cup {o})

\* gcs_to_localfs_template_loader.py lines 38-80:
\* GCSToLocalFSTemplateLoader.load(): _download, the write of the ledger
\* (lines 67-69), then LocalFSTemplateLoader.load() of the local file.
ToLocalLoad ==
    LET r == DownloadLoop(1, ReadLedger, gcs.files, {})
    IN  /\ gcs' =
             IF r.err # ""
             THEN [gcs EXCEPT !.files = r.files,
                              !.last = Outcome("tolocal", r.err, 0, r.dl)]
             ELSE IF ~gcs.writable
             THEN [gcs EXCEPT !.files = r.files,
                              !.last = Outcome("tolocal", "OSError", 0, r.dl)]
             ELSE [gcs EXCEPT
                     !.files = r.files,
                     !.ledger = [st |-> IF gcs.ledger.st = "notdict"
                                        THEN "notdict" ELSE "ok",
                                 data |-> r.data],
                     !.last = IF r.files[TemplateName] # 0
                              THEN Outcome("tolocal", "",
                                           r.files[TemplateName], r.dl)
                              ELSE Outcome("tolocal", "TemplateNotFound", 0,
                                           r.dl)]
        /\ UNCHANGED <<data, order, maxsize, loaders, source, nloaded, limit,
                       rd, bg, racc, lc, tp>>

InitGcs ==
    /\ RegistryOff
    /\ lc = Off
    /\ gcs = InitGcsState
    /\ tp = Off

NextGcs ==
    \/ \E o \in Objects : BucketPut(o)
    \/ \E o \in Objects : BucketDelete(o)
    \/ \E st \in {"missing", "unreadable", "corrupt", "notdict"} :
          LedgerDamage(st)
    \/ \E b \in BOOLEAN : SetWritable(b)
    \/ NaiveLoad
    \/ DictLoad
    \/ CacheLoad
    \/ ToLocalLoad

SpecGcs == InitGcs /\ [][NextGcs]_vars

\* ------------------------------------------- loader ids and Template(...)

\* The loader classes.
GcsVariants == {"naive", "cache", "dict", "tolocal"}
Variants == {"localfs", "package"} \cup GcsVariants

\* Constructor arguments: the bucket (or, for the package loader, the package
\* name) and the template path.  NoLoader: no loader given.
Places == {"b", "c"}
Paths == {<<"n">>, <<"d", "/", "n">>}
LoaderArgs == [variant : Variants, place : Places, path : Paths]
NoLoader == [variant |-> "none", place |-> "", path |-> << >>]

\* os.path.split: the part before the last "/" and the part after it.
RECURSIVE LastSlash(_, _)
LastSlash(path, i) ==
    IF i = 0 THEN 0 ELSE IF path[i] = "/" THEN i ELSE LastSlash(path, i - 1)
PathSplit(path) ==
    LET i == LastSlash(path, Len(path))
    IN  [head |-> IF i = 0 THEN << >> ELSE SubSeq(path, 1, i - 1),
         tail |-> SubSeq(path, i + 1, Len(path))]

\* template_loaders.py lines 35-40: _parse_template_path.
ParseTemplatePath(path) ==
    LET s == PathSplit(path)
    IN  [dir |-> IF s.head = << >> THEN <<".">> ELSE s.head, name |-> s.tail]

\* template_loaders.py line 14: GCS_TEMPLATE_LOADER_PREFIX.
GcsPrefix == <<"gcs", ":", "/", "/">>

\* id() of each loader class, as the tokens of the string it formats.
LoaderId(l) ==
    LET p == ParseTemplatePath(l.path)
    IN  IF l.variant = "localfs" THEN p.dir \o <<"/">> \o p.name
        ELSE IF l.variant = "package"
             THEN <<l.place, ":">> \o p.dir \o <<"/">> \o p.name
        ELSE GcsPrefix \o <<l.place, "/">> \o p.dir \o <<"/">> \o p.name

\* An optional argument: None, or a value.
None == [some |-> FALSE, v |-> << >>]
Some(x) == [some |-> TRUE, v |-> x]

\* Python truth of an optional string or path: None and "" are false.
Truthy(x) == x.some /\ x.v # << >>

\* The arguments of Template(...): template_path, template_loader,
\* package_name, raw_template (strings as token sequences, "" is << >>),
\* from_cache, and whether the load() the registry would make succeeds.
TemplateArgs ==
    [path : {None, Some(<<"d", "/", "n">>)},
     loader : {NoLoader, [variant |-> "localfs", place |-> "b",
                          path |-> <<"n">>]},
     package : {None, Some(<<"pkg">>)},
     raw : {None, Some(<< >>), Some(<<"text">>)},
     from_cache : BOOLEAN,
     load_ok : BOOLEAN]

\* template.py line 140: if self._raw_template.
CompilesRaw(a) == Truthy(a.raw)

\* template.py lines 38-80 and 138-147: Template.__init__ and
\* _load_template.  err: the exception that leaves the constructor ("" if
\* none); source: where the compiled template came from; registry: whether
\* TemplateRegistry(...) was called; loader: the loader class built or given.
TemplateInit(a) ==
    IF Truthy(a.raw) /\ Truthy(a.path)
    THEN [err |-> "ValueError", source |-> "none", registry |-> FALSE,
          loader |-> "none"]
    ELSE IF a.loader = NoLoader /\ ~a.path.some
    THEN [err |-> "TypeError", source |-> "none", registry |-> FALSE,
          loader |-> "none"]
    ELSE LET lv == IF a.loader # NoLoader THEN a.loader.variant
                   ELSE IF Truthy(a.package) THEN "package" ELSE "localfs"
         IN  IF CompilesRaw(a)
             THEN [err |-> "", source |-> "raw", registry |-> FALSE,
                   loader |-> lv]
             ELSE IF a.load_ok
             THEN [err |-> "", source |-> "registry", registry |-> TRUE,
                   loader |-> lv]
             ELSE [err |-> "TemplateNotFound", source |-> "none",
                   registry |-> TRUE, loader |-> lv]

\* No Template built and no loader made yet.
InitTpState ==
    [args |-> [path |-> None, loader |-> NoLoader, package |-> None,
               raw |-> None, from_cache |-> FALSE, load_ok |-> FALSE],
     res |-> [err |-> "", source |-> "none", registry |-> FALSE,
              loader |-> "none"],
     l1 |-> NoLoader, k1 |-> << >>,
     l2 |-> NoLoader, k2 |-> << >>]

\* Template(...) is called with arguments a.
NewTemplate(a) ==
    /\ tp' = [tp EXCEPT !.args = a, !.res = TemplateInit(a)]
    /\ UNCHANGED <<data, order, maxsize, loaders, source, nloaded, limit, rd,
                   bg, racc, lc, gcs>>

\* A loader is made with arguments l and its id() taken as cache key; the
\* state keeps the last two loaders and their keys.
NewLoader(l) ==
    /\ tp' = [tp EXCEPT !.l1 = tp.l2, !.k1 = tp.k2,
                        !.l2 = l, !.k2 = LoaderId(l)]
    /\ UNCHANGED <<data, order, maxsize, loaders, source, nloaded, limit, rd,
                   bg, racc, lc, gcs>>

InitTemplate ==
    /\ RegistryOff
    /\ lc = Off
    /\ gcs = Off
    /\ tp = InitTpState

NextTemplate ==
    \/ \E a \in TemplateArgs : NewTemplate(a)
    \/ \E l \in LoaderArgs : NewLoader(l)

SpecTemplate == InitTemplate /\ [][NextTemplate]_vars

\* ------------------------------------------------------------------ claims

\* A step in which the call of caller thread r ends.
Ends(r) == rd[r].pc # "idle" /\ rd'[r].pc = "idle"

\* C1: a call with use_cache=False never enters the cache path; it makes
\* exactly one load() call, in the step in which it returns, returns the new
\* template of that call, which is no value of the cache map, and leaves the
\* map as it is, cached or not.
C1_NoCacheLoadsOnce ==
    [][\A r \in Readers :
        /\ (rd'[r].pc # "idle" /\ ~rd'[r].uc)
              => (rd'[r].pc = "nc_load" /\ rd'[r].nl = 0)
        /\ (Ends(r) /\ ~rd[r].uc /\ rd'[r].ret.kind = "ok")
              => /\ nloaded' = nloaded + 1
                 /\ rd'[r].ret.val = Tmpl(rd[r].key, source[rd[r].key], nloaded')
                 /\ \A k \in DOMAIN data : data[k] # rd'[r].ret.val
                 /\ data' = data
                 /\ order' = order]_vars

\* A use_cache=False call has returned a new template for an identity the
\* map holds another template of.
C1_Witness ==
    \E r \in Readers :
        /\ rd[r].pc = "idle" /\ rd[r].ret.kind = "ok" /\ ~rd[r].ret.uc
        /\ Contains(data, rd[r].ret.val.id)
        /\ data[rd[r].ret.val.id] # rd[r].ret.val

\* C2: a cached lookup that follows a cached lookup of the same identity by
\* the same caller, the source never changing, returns the same template
\* object, and makes no load() call, while the background thread runs.
C2_SameObjectNoReload ==
    [][\A r \in Readers :
        (Ends(r) /\ rd[r].prev # NoTmpl)
            => /\ rd'[r].ret.kind = "ok"
               /\ rd'[r].ret.val = rd[r].prev
               /\ rd[r].nl = 0
               /\ nloaded' = nloaded]_vars

C4_OnlyLoadedTemplates ==
    /\ \A k \in DOMAIN data : data[k].id = k /\ data[k].n \in 1..nloaded
    /\ \A r \in Readers :
        /\ rd[r].pc = "l83_update"
              => (rd[r].val.id = rd[r].key /\ rd[r].val.n \in 1..nloaded)
        /\ rd[r].pc \in {"l81", "l82_load"} => rd[r].val = NoTmpl
        /\ rd[r].ret.kind = "ok" => rd[r].ret.val.n \in 1..nloaded
    /\ bg.pc = "load" => bg.val = NoTmpl

\* A first load of an identity is running while the map holds an entry of
\* another identity and none of the identity being loaded.
C4_Witness ==
    \E r \in Readers :
        /\ rd[r].pc = "l82_load"
        /\ ~Contains(data, rd[r].key)
        /\ DOMAIN data # {}

\* The threads with a load() of identity k in flight.
InFlight(k) ==
    {r \in Readers : rd[r].pc = "l82_load" /\ rd[r].key = k}
        \cup (IF bg.pc = "load" /\ bg.key = k THEN {"bg"} ELSE {})

\* C5: while the background thread is alive, at most one load() of an
\* identity is in flight, over the background thread and the cached lookups.
C5_OneLoadInFlight ==
    bg.pc # "dead" => \A k \in Ids : Cardinality(InFlight(k)) <= 1

\* A cached lookup of reader r that found its identity in the map is at
\* line 83 while the background thread's load() of that identity is running.
HitDuringRefresh(r) ==
    /\ rd[r].pc \in {"l83_read", "l83_update"}
    /\ ~rd[r].miss
    /\ bg.pc = "load"
    /\ bg.key = rd[r].key

C7_LastGoodValueKept ==
    [][\A k \in Ids :
        (bg.failed = k /\ bg'.failed = k /\ Contains(data, k))
            => (Contains(data', k) /\ data'[k] = data[k])]_vars

\* C7 as amended: a background load() that raises changes neither the map,
\* nor its recency order, nor any caller, and the thread goes on with its
\* cycle; afterwards the value of that identity is replaced only by the store
\* of a template loaded for that identity, it leaves the map only when an
\* insertion of another identity evicts it, and a cached lookup that reads
\* it meanwhile gets the stored value.
C7_FailedRefreshKeepsEntry ==
    [][/\ (bg.pc = "load" /\ bg'.pc # "load" /\ nloaded' = nloaded)
            => /\ data' = data /\ order' = order /\ rd' = rd
               /\ bg'.pc = "iter" /\ bg'.failed = bg.key
       /\ \A k \in Ids :
            (bg.failed = k /\ Contains(data, k))
                => \/ Contains(data', k) /\ data'[k] = data[k]
                   \/ /\ Contains(data', k)
                      /\ data'[k].id = k
                      /\ \/ bg.pc = "store" /\ bg.key = k /\ data'[k] = bg.val
                         \/ \E r \in Readers :
                               /\ rd[r].pc = "l82_store" /\ rd[r].key = k
                               /\ data'[k] = rd[r].val
                   \/ /\ ~Contains(data', k)
                      /\ \/ bg.pc = "evict" /\ bg.key # k /\ bg' # bg
                         \/ \E r \in Readers :
                               /\ rd[r].pc = "l82_evict" /\ rd[r].key # k
                               /\ rd'[r] # rd[r]
       /\ \A r \in Readers :
            (/\ rd[r].pc = "l83_read" /\ rd'[r] # rd[r]
             /\ bg.failed = rd[r].key /\ Contains(data, rd[r].key))
                => (rd'[r].pc = "l83_update" /\ rd'[r].val = data[rd[r].key])]_vars

\* After a background load() of an identity raised, a cached lookup has read
\* the value the map still holds for it.
C7_Witness ==
    \E r \in Readers :
        /\ bg.failed = rd[r].key
        /\ rd[r].pc = "l83_update" /\ ~rd[r].miss
        /\ Contains(data, rd[r].key)
        /\ rd[r].val = data[rd[r].key]

\* C8: a load() that raises inside get_template, in a lookup that bypasses
\* the cache or in the first load of an identity, ends the call with that
\* error raised to the caller and no template returned; the map is unchanged.
C8_CallerLoadErrorRaised ==
    [][\A r \in Readers :
        (/\ rd[r].pc \in {"nc_load", "l82_load"}
         /\ rd'[r] # rd[r]
         /\ nloaded' = nloaded)
            => /\ rd'[r].pc = "idle"
               /\ rd'[r].ret = [kind |-> "err", val |-> NoTmpl,
                                err |-> "LoadError", uc |-> rd[r].uc]
               /\ data' = data]_vars

\* One caller got the load error from a lookup that bypasses the cache and
\* another from the first load of an identity.
C8_Witness ==
    \E r1, r2 \in Readers :
        /\ rd[r1].pc = "idle" /\ rd[r1].ret.kind = "err"
        /\ rd[r1].ret.err = "LoadError" /\ ~rd[r1].ret.uc
        /\ rd[r2].pc = "idle" /\ rd[r2].ret.kind = "err"
        /\ rd[r2].ret.err = "LoadError" /\ rd[r2].ret.uc

\* The identity of the map d that the callers' cached lookups accessed least
\* recently, acc being the identities in the order of their last access.
LRA(d, acc) ==
    LET in == SelectSeq(acc, LAMBDA k : k \in DOMAIN d)
    IN  IF in = << >> THEN "none" ELSE Head(in)

\* C9: an entry that leaves the map is the one the callers' cached lookups
\* accessed least recently, whatever the background thread did in between.
C9_EvictsLeastRecentlyAccessed ==
    [][\A k \in DOMAIN data :
        k \notin DOMAIN data' => k = LRA(data, racc)]_vars

\* C10: the map never holds more entries than cache_max_size.
C10_MapBounded ==
    Cardinality(DOMAIN data) <= maxsize

\* A step in which shutdown(), called by q, returns without raising.
ShutdownReturns(q) ==
    /\ lc.p[q].op = "shutdown"
    /\ lc.p[q].pc # "idle"
    /\ lc'.p[q].pc = "idle"
    /\ lc'.p[q].out # "RuntimeError"

\* C11: when a shutdown() call returns, the refresher thread the registry
\* held when the call began has exited (and so stores nothing more), also
\* when several threads call shutdown() at once.
C11_ShutdownReturnsAfterExit ==
    [][\A q \in Procs :
        (ShutdownReturns(q) /\ lc.p[q].t0 # 0)
            => lc'.thr[lc.p[q].t0].pc = "exited"]_vars

\* C12: the stop routine (shutdown(), or line 42 of __init__) that finds no
\* _stop_event attribute or finds the event set is done in that step: it
\* neither waits nor raises and changes nothing of the registry or its
\* threads; and the event a returned shutdown() found or left set stays
\* set, so a second shutdown() on the same registry takes that path.
C12_StopIsIdempotent ==
    /\ [](\A q \in Procs :
            (lc.p[q].pc = "idle" /\ lc.p[q].out \in {"stopped", "skipped"})
                => (lc.p[q].ev = 0 \/ lc.set[lc.p[q].ev] # "no"))
    /\ [][\A q \in Procs :
            (/\ lc.p[q].pc = "l100"
             /\ lc'.p[q] # lc.p[q]
             /\ (lc.event = 0 \/ lc.set[lc.event] # "no"))
                => /\ lc.p[q].op = "shutdown"
                      => (lc'.p[q].pc = "idle" /\ lc'.p[q].out = "skipped")
                   /\ lc.p[q].op = "init" => lc'.p[q].pc = "l43"
                   /\ lc' = [lc EXCEPT !.p[q] = lc'.p[q]]]_vars

\* A caller whose shutdown() stopped the thread has called shutdown() again
\* on the same registry and is at line 100, the event set.
C12_Witness ==
    \E q \in Procs :
        /\ lc.p[q].pc = "l100" /\ lc.p[q].op = "shutdown"
        /\ lc.p[q].out = "stopped"
        /\ lc.p[q].ev # 0 /\ lc.p[q].ev = lc.event
        /\ lc.thr[lc.thread].pc = "exited"

\* C13: no refresher thread stores into a cache map that was installed
\* after the thread had been started.
C13_NoOldThreadWritesNewMap ==
    lc.lw.map # 0 => lc.lw.by \notin lc.olds[lc.lw.map]

\* C14: a construction TemplateRegistry(...) that begins when the _thread
\* handle refers to a thread stopped by shutdown() returns with the handle
\* on a running thread that this construction created and started.
C14_ConstructionStartsThread ==
    [][\A q \in Procs :
        /\ (/\ lc.p[q].pc = "idle" /\ lc'.p[q].pc = "idle"
            /\ lc'.p[q] # lc.p[q] /\ lc'.p[q].out = "kept"
            /\ StaleHandle)
              => /\ lc'.thread # lc.thread
                 /\ lc'.thr[lc'.thread].pc \notin {"none", "new", "exited"}
        /\ (lc.p[q].pc = "l51" /\ lc'.p[q].pc = "idle" /\ lc.p[q].stale)
              => /\ lc'.thread = lc.p[q].g
                 /\ lc'.thr[lc'.thread].pc \notin {"none", "new", "exited"}]_vars

\* C15: once the sources have stopped changing, the cache map eventually
\* holds, and from then on keeps, for every identity in it the template of
\* the source's latest version, which is what a cached lookup returns.
C15_EventuallyFresh ==
    <>[](\A k \in DOMAIN data : data[k].ver = source[k])

\* A step that is a load() of the GCSDictTemplateLoader.
DictLoadStep ==
    /\ gcs' # gcs
    /\ gcs'.last.variant = "dict"
    /\ gcs'.bucket = gcs.bucket
    /\ gcs'.ledger = gcs.ledger
    /\ gcs'.writable = gcs.writable
    /\ gcs'.files = gcs.files

\* C16: a load() of the GCSDictTemplateLoader downloads exactly the listed
\* objects whose name does not end in "/", has one of the four suffixes and
\* whose generation differs from the recorded one; it records the generation
\* of what it downloaded and keeps the rest (so an unchanged object is not
\* downloaded again and a changed one once), and a load() that succeeds
\* returns the template of the mapping's entry for the requested name, the
\* content downloaded last.
C16_DictDownloadsExactlyStale ==
    [][DictLoadStep =>
        LET want == {o \in Objects :
                        /\ gcs.bucket[o].live
                        /\ o[1] = "d"
                        /\ o[Len(o)] # "/"
                        /\ <<o[Len(o) - 1], o[Len(o)]>> \in
                              {<<".yml", ".j2">>, <<".yaml", ".j2">>,
                               <<".yml", ".jinja2">>, <<".yaml", ".jinja2">>}
                        /\ gcs.gd[o] # gcs.bucket[o].gen}
        IN  /\ gcs'.last.dl = want
            /\ \A o \in Objects :
                  gcs'.gd[o] = IF o \in want THEN gcs.bucket[o].gen
                               ELSE gcs.gd[o]
            /\ gcs'.mapping[TemplateName] =
                  IF ObjA \in want THEN gcs.bucket[ObjA].gen
                  ELSE gcs.mapping[TemplateName]
            /\ gcs'.last.err = ""
                  => /\ gcs'.last.content # 0
                     /\ gcs'.last.content = gcs'.mapping[TemplateName]
                     /\ gcs'.last.content = gcs'.gd[ObjA]]_vars

\* A load() that downloaded nothing and returned the template of the
\* second generation of the requested object, downloaded by an earlier
\* load(), the text file and the pseudo-directory being in the bucket.
C16_Witness ==
    /\ gcs.last.variant = "dict" /\ gcs.last.err = ""
    /\ gcs.last.dl = {}
    /\ gcs.last.content = 2
    /\ gcs.bucket[ObjA] = [gen |-> 2, live |-> TRUE]
    /\ gcs.bucket[ObjB].live /\ gcs.bucket[ObjC].live
    /\ gcs.gd = [o \in Objects |-> IF o = ObjA THEN 2 ELSE 0]

\* C17: a load() of any object-storage loader during which the requested
\* object is absent from the bucket raises TemplateNotFound.
C17_AbsentIsNotFound ==
    (gcs.last.variant # "none" /\ gcs.last.absent)
        => gcs.last.err = "TemplateNotFound"

\* C18: no load() fails with the error of a read or write of the
\* '.generation' file.
C18_LedgerNeverFatal ==
    gcs.last.err \notin {"OSError", "TypeError", "AttributeError"}

\* C19: Template(raw_template=text) with no template_path and no
\* template_loader succeeds, compiles the text, and does not call
\* TemplateRegistry(...), whatever from_cache is.
C19_RawTemplateBypassesRegistry ==
    (/\ tp.args.raw = Some(<<"text">>)
     /\ ~tp.args.path.some
     /\ tp.args.loader = NoLoader)
        => /\ tp.res.err = ""
           /\ tp.res.source = "raw"
           /\ ~tp.res.registry

\* The location a loader points at: the template path, and for all but the
\* local filesystem loader the bucket or package.
Location(l) == IF l.variant = "localfs" THEN <<l.path>> ELSE <<l.place, l.path>>

\* A key of the form scheme://root/directory/name.
HasIdForm(k) ==
    /\ Len(k) >= 8
    /\ SubSeq(k, 2, 4) = <<":", "/", "/">>
    /\ k[1] \notin {":", "/", "."}
    /\ k[6] = "/"
    /\ k[Len(k) - 1] = "/"

\* C20: the key of every loader has the form scheme://root/directory/name,
\* and two loaders have equal keys only if they are of the same class and
\* point at the same location.
C20_IdsCollisionFree ==
    (tp.l1 # NoLoader /\ tp.l2 # NoLoader)
        => /\ HasIdForm(tp.k1) /\ HasIdForm(tp.k2)
           /\ tp.k1 = tp.k2
                 => (tp.l1.variant = tp.l2.variant
                     /\ Location(tp.l1) = Location(tp.l2))

\* A caller thread is inside LRUCache.__setitem__ (line 82): the eviction
\* loop has run and the dict store or the recency update is still to come.
ReaderInSetItem(r) == rd[r].pc \in {"l82_store", "l82_update"}

\* The background thread is inside LRUCache.__setitem__ (line 58).
BgInSetItem == bg.pc \in {"store", "update"}

\* The threads that are inside a mutation of the cache map.
InSetItem ==
    {r \in Readers : ReaderInSetItem(r)} \cup (IF BgInSetItem THEN {"bg"} ELSE {})

\* C21: no two threads are inside a mutation of the cache map (the insert of
\* a miss, its eviction, the store of the background thread) at the same time.
C21_MapMutationsExclusive == Cardinality(InSetItem) <= 1

\* C22: for each identity the results of loads are written to the cache map
\* in the order in which the loads completed: a write never replaces the
\* template of an identity by one whose load() returned earlier.
C22_WritesInCompletionOrder ==
    [][\A k \in DOMAIN data \cap DOMAIN data' : data'[k].n >= data[k].n]_vars

\* The refresher threads that are alive: started and not yet exited.
Alive == {t \in Gens : lc.thr[t].pc \in {"l55", "load", "store", "sleep"}}

\* C23: at most one background refresher thread is alive, under every
\* interleaving of constructions (with and without reset) and shutdown()
\* calls.
C23_OneRefresherAlive == Cardinality(Alive) <= 1

\* C24: the background thread, once started, does not end while the stop
\* event is unset (no shutdown() is called here): neither a failed load()
\* nor a get_template call that registers a loader during its iteration of
\* the loader dict terminates it.
C24_RefresherNeverDies == bg.pc # "dead"

\* C25: a get_template(loader, use_cache=True) whose miss load raises leaves
\* the registry as it was before the call.  So while no load() has succeeded
\* yet and no call is running, the cache map is empty and no loader is
\* registered in the loader dict.
C25_FailedMissLeavesRegistry ==
    (nloaded = 0 /\ \A r \in Readers : rd[r].pc = "idle")
        => (loaders = << >> /\ data = << >>)

\* C26: get_template(loader, use_cache=True) fails only if its own load()
\* call fails: the only error a cached lookup ends with is the error of its
\* load, whatever the capacity and whatever other callers and the
\* background thread insert in between.
C26_FailsOnlyOnOwnLoad ==
    \A r \in Readers :
        (rd[r].ret.kind = "err" /\ rd[r].ret.uc) => rd[r].ret.err = "LoadError"

====
